---------------------------- MODULE Spec2Model ----------------------------
(***************************************************************************)
(* The feedback endpoint of captivate-llm-final: a Cloudflare Worker that  *)
(* gates a request by method and Origin, validates its JSON body, calls    *)
(* the OpenAI API once with a server-held key and relays the verdict.      *)
(*                                                                         *)
(* Two entry points of the repository are modelled:                        *)
(*   "worker"  the handler of src/unnamed/part_000 (lines 1-174; the same  *)
(*             code is repeated at lines 180-346 and, cut short, in        *)
(*             src/worker.js);                                             *)
(*   "index"   the handler of src/src/index.js.                            *)
(*                                                                         *)
(* A JavaScript string is a sequence of one-character strings, so that     *)
(* trim, slice, the origin pattern, JSON.parse and JSON.stringify are      *)
(* computed on characters the way the runtime computes them.               *)
(***************************************************************************)
EXTENDS Integers, Sequences, FiniteSets, TLC

(***************************************************************************)
(* Characters and string helpers                                           *)
(***************************************************************************)
Digits == {"0","1","2","3","4","5","6","7","8","9"}

\* String.prototype.trim strips these (the WhiteSpace and LineTerminator
\* characters that occur in the inputs of this model).
TrimSpace == {" ", "\t", "\n", "\r"}

\* Whitespace of the JSON grammar.
JSONWs == {" ", "\t", "\n", "\r"}

Quote == "\""

Backslash == "\\"

\* Characters JSON.stringify escapes / JSON.parse refuses raw inside a string.
ControlChars == {"\t", "\n", "\r"}

Min2(a, b) == IF a < b THEN a ELSE b

\* a string of n copies of the character c
Rep(c, n) == [i \in 1..n |-> c]

\* s[i], or "" past either end
At(s, i) == IF i >= 1 /\ i <= Len(s) THEN s[i] ELSE ""

\* first index in a..b whose character is in S; b+1 when there is none
FirstIn(s, a, b, S) ==
    IF \E j \in a..b : s[j] \in S
    THEN CHOOSE j \in a..b : s[j] \in S /\ \A k \in a..(j-1) : s[k] \notin S
    ELSE b + 1

\* first index in a..b whose character is not in S; b+1 when there is none
FirstNotIn(s, a, b, S) ==
    IF \E j \in a..b : s[j] \notin S
    THEN CHOOSE j \in a..b : s[j] \notin S /\ \A k \in a..(j-1) : s[k] \in S
    ELSE b + 1

\* last index in 1..Len(s) whose character is not in S; 0 when there is none
LastNotIn(s, S) ==
    IF \E j \in 1..Len(s) : s[j] \notin S
    THEN CHOOSE j \in 1..Len(s) : s[j] \notin S /\ \A k \in (j+1)..Len(s) : s[k] \in S
    ELSE 0

\* String.prototype.trim
Trim(s) ==
    IF LastNotIn(s, TrimSpace) = 0 THEN <<>>
    ELSE SubSeq(s, FirstNotIn(s, 1, Len(s), TrimSpace), LastNotIn(s, TrimSpace))

\* String.prototype.slice(0, n) for n >= 0
Slice(s, n) == SubSeq(s, 1, Min2(n, Len(s)))

(***************************************************************************)
(* JavaScript values.  Every value is a record of the same shape: its type *)
(* tag t, its characters s (a string's text, a number's digits) and its    *)
(* kids, the members of an object or the elements of an array, each a pair *)
(* [k |-> key, v |-> value] (an element's key is the empty string).        *)
(***************************************************************************)
JSValue(t, s, kids) == [t |-> t, s |-> s, kids |-> kids]

Undefined == JSValue("undefined", <<>>, <<>>)

JSNull == JSValue("null", <<>>, <<>>)

JSTrue == JSValue("true", <<>>, <<>>)

JSFalse == JSValue("false", <<>>, <<>>)

JSNum(digits) == JSValue("number", digits, <<>>)

JSStr(s) == JSValue("string", s, <<>>)

JSArr(elems) == JSValue("array", <<>>, [i \in 1..Len(elems) |-> [k |-> <<>>, v |-> elems[i]]])

JSObj(members) == JSValue("object", <<>>, members)

Member(k, v) == [k |-> k, v |-> v]

\* typeof v === "string"
IsString(v) == v.t = "string"

\* Array.isArray(v)
IsArray(v) == v.t = "array"

\* the elements of an array, in order
Elements(v) == [i \in 1..Len(v.kids) |-> v.kids[i].v]

\* v.key for a value v that is neither null nor undefined: the member of an
\* object, undefined for a missing member and for any property of this model
\* read off a primitive or an array
Get(v, key) ==
    IF v.t = "object" /\ \E i \in 1..Len(v.kids) : v.kids[i].k = key
    THEN v.kids[CHOOSE i \in 1..Len(v.kids) : v.kids[i].k = key].v
    ELSE Undefined

\* reading a property of null or undefined throws a TypeError
Nullish(v) == v.t \in {"null", "undefined"}

\* ToBoolean: the falsy values are undefined, null, false, 0, -0 and ""
Truthy(v) ==
    CASE v.t \in {"undefined", "null", "false"} -> FALSE
      [] v.t = "string" -> Len(v.s) > 0
      [] v.t = "number" -> \E i \in 1..Len(v.s) : v.s[i] \in (Digits \ {"0"})
      [] OTHER -> TRUE

Str_true == <<"t","r","u","e">>

Str_false == <<"f","a","l","s","e">>

Str_null == <<"n","u","l","l">>

Str_undefined == <<"u","n","d","e","f","i","n","e","d">>

Str_objectObject == <<"[","o","b","j","e","c","t"," ","O","b","j","e","c","t","]">>

RECURSIVE JSString(_)
RECURSIVE JoinFrom(_, _, _)
\* Array.prototype.join(sep) from element i on: null and undefined elements
\* give the empty string
JoinFrom(elems, i, sep) ==
    IF i > Len(elems) THEN <<>>
    ELSE (IF Nullish(elems[i]) THEN <<>> ELSE JSString(elems[i]))
         \o (IF i < Len(elems) THEN sep \o JoinFrom(elems, i + 1, sep) ELSE <<>>)

\* String(v).  A number is its digits (exact for the integers of fewer than 16
\* digits this model uses; "-0" prints as "0").
JSString(v) ==
    CASE v.t = "string" -> v.s
      [] v.t = "number" -> IF v.s = <<"-","0">> THEN <<"0">> ELSE v.s
      [] v.t = "true" -> Str_true
      [] v.t = "false" -> Str_false
      [] v.t = "null" -> Str_null
      [] v.t = "undefined" -> Str_undefined
      [] v.t = "array" -> JoinFrom(Elements(v), 1, <<",">>)
      [] OTHER -> Str_objectObject

(***************************************************************************)
(* JSON.stringify                                                          *)
(***************************************************************************)
EscapeChar(c) ==
    CASE c = Quote -> <<Backslash, Quote>>
      [] c = Backslash -> <<Backslash, Backslash>>
      [] c = "\n" -> <<Backslash, "n">>
      [] c = "\t" -> <<Backslash, "t">>
      [] c = "\r" -> <<Backslash, "r">>
      [] OTHER -> <<c>>

RECURSIVE EscapeRange(_, _, _)
\* the characters lo..hi of s with every character that needs it escaped
EscapeRange(s, lo, hi) ==
    IF lo > hi THEN <<>>
    ELSE IF FirstIn(s, lo, hi, {Quote, Backslash} \cup ControlChars) > hi THEN SubSeq(s, lo, hi)
    ELSE IF lo = hi THEN EscapeChar(s[lo])
    ELSE EscapeRange(s, lo, (lo + hi) \div 2) \o EscapeRange(s, (lo + hi) \div 2 + 1, hi)

\* a string as a JSON string literal
QuoteJSON(s) == <<Quote>> \o EscapeRange(s, 1, Len(s)) \o <<Quote>>

\* one more piece in front of a comma-separated list
Joined(one, rest) == IF rest = <<>> THEN one ELSE one \o <<",">> \o rest

RECURSIVE JSONStringify(_)
RECURSIVE StringifyKids(_, _, _)
\* the members (withKeys) or elements of kids from i on, comma-separated.
\* An undefined member is left out; an undefined element prints as null.
StringifyKids(kids, i, withKeys) ==
    IF i > Len(kids) THEN <<>>
    ELSE IF withKeys /\ kids[i].v.t = "undefined" THEN StringifyKids(kids, i + 1, withKeys)
    ELSE Joined((IF withKeys THEN QuoteJSON(kids[i].k) \o <<":">> ELSE <<>>)
                    \o JSONStringify(kids[i].v),
                StringifyKids(kids, i + 1, withKeys))

\* JSON.stringify(v) for a value other than undefined
JSONStringify(v) ==
    CASE v.t = "string" -> QuoteJSON(v.s)
      [] v.t = "number" -> JSString(v)
      [] v.t = "true" -> Str_true
      [] v.t = "false" -> Str_false
      [] v.t = "array" -> <<"[">> \o StringifyKids(v.kids, 1, FALSE) \o <<"]">>
      [] v.t = "object" -> <<"{">> \o StringifyKids(v.kids, 1, TRUE) \o <<"}">>
      [] OTHER -> Str_null

(***************************************************************************)
(* JSON.parse.  The grammar covered: null, true, false, integers, strings  *)
(* with the escapes \" \\ \/ \n \t \r, arrays and objects, with JSON       *)
(* whitespace between tokens.  (Fractions, exponents and \b \f \uXXXX do   *)
(* not occur in the texts of this model.)  A parse step gives              *)
(* [ok, v, next]: whether a value was read, the value, and the index after *)
(* it.                                                                     *)
(***************************************************************************)
ParseFail(i) == [ok |-> FALSE, v |-> Undefined, next |-> i]

ParseOk(v, next) == [ok |-> TRUE, v |-> v, next |-> next]

SkipWs(s, i) == FirstNotIn(s, i, Len(s), JSONWs)

Escapable == {Quote, Backslash, "/", "n", "t", "r"}

Unescaped(c) ==
    CASE c = "n" -> "\n"
      [] c = "t" -> "\t"
      [] c = "r" -> "\r"
      [] OTHER -> c

RECURSIVE FindClose(_, _)
\* j is the first quote, backslash or control character at or after the
\* start of a string literal's text
CloseFrom(s, j) ==
    IF j > Len(s) THEN 0
    ELSE IF s[j] = Quote THEN j
    ELSE IF s[j] = Backslash /\ At(s, j + 1) \in Escapable THEN FindClose(s, j + 2)
    ELSE 0

\* the index of the quote that closes a string literal whose text starts at
\* a; 0 when the literal is not closed or holds a raw control character or
\* an escape outside the grammar
FindClose(s, a) == CloseFrom(s, FirstIn(s, a, Len(s), {Quote, Backslash} \cup ControlChars))

RECURSIVE Unescape(_, _, _)
\* j is the first backslash in a..b
UnescapeFrom(s, a, b, j) ==
    IF j > b THEN SubSeq(s, a, b)
    ELSE SubSeq(s, a, j - 1) \o <<Unescaped(s[j + 1])>> \o Unescape(s, j + 2, b)

\* the text of the characters a..b of a well-formed string literal
Unescape(s, a, b) == UnescapeFrom(s, a, b, FirstIn(s, a, b, {Backslash}))

\* the string literal that opens at i and closes at c
StringTo(s, i, c) ==
    IF c = 0 THEN ParseFail(i) ELSE ParseOk(JSStr(Unescape(s, i + 1, c - 1)), c + 1)

\* a string literal at i (s[i] is the opening quote)
ParseString(s, i) == StringTo(s, i, FindClose(s, i + 1))

\* the integer at i whose digits are d..e-1
NumberTo(s, i, d, e) ==
    IF e = d \/ (s[d] = "0" /\ e > d + 1) THEN ParseFail(i)
    ELSE ParseOk(JSNum(SubSeq(s, i, e - 1)), e)

\* the integer at i whose digits start at d
NumberFrom(s, i, d) == NumberTo(s, i, d, FirstNotIn(s, d, Len(s), Digits))

\* an integer at i: -?(0|[1-9][0-9]*)
ParseNumber(s, i) == NumberFrom(s, i, IF At(s, i) = "-" THEN i + 1 ELSE i)

\* the literal word w at i
ParseWord(s, i, w, v) ==
    IF i + Len(w) - 1 <= Len(s) /\ SubSeq(s, i, i + Len(w) - 1) = w
    THEN ParseOk(v, i + Len(w))
    ELSE ParseFail(i)

\* members with member k set to v: a repeated key keeps its first place and
\* takes the last value
PutMember(members, k, v) ==
    IF \E i \in 1..Len(members) : members[i].k = k
    THEN [i \in 1..Len(members) |-> IF members[i].k = k THEN Member(k, v) ELSE members[i]]
    ELSE Append(members, Member(k, v))

RECURSIVE ParseValue(_, _)
RECURSIVE ParseElements(_, _, _)
RECURSIVE ParseMembers(_, _, _)
\* after the elements acc, at the first character q past them
ElementsNext(s, acc, q) ==
    IF At(s, q) = "," THEN ParseElements(s, q + 1, acc)
    ELSE IF At(s, q) = "]" THEN ParseOk(JSArr(acc), q + 1)
    ELSE ParseFail(q)

\* after the elements acc and the parse step r of the next one
ElementsAfter(s, acc, r) ==
    IF ~r.ok THEN ParseFail(r.next)
    ELSE ElementsNext(s, Append(acc, r.v), SkipWs(s, r.next))

\* the elements of an array from i on (after "[" or ","), acc those read
ParseElements(s, i, acc) == ElementsAfter(s, acc, ParseValue(s, SkipWs(s, i)))

\* after the members acc, at the first character q past them
MembersNext(s, acc, q) ==
    IF At(s, q) = "," THEN ParseMembers(s, q + 1, acc)
    ELSE IF At(s, q) = "}" THEN ParseOk(JSObj(acc), q + 1)
    ELSE ParseFail(q)

\* after the members acc, the key k and the parse step r of its value
MembersAfter(s, acc, k, r) ==
    IF ~r.ok THEN ParseFail(r.next)
    ELSE MembersNext(s, PutMember(acc, k, r.v), SkipWs(s, r.next))

\* after the members acc and the key k, at the first character c past it
MembersColon(s, acc, k, c) ==
    IF At(s, c) # ":" THEN ParseFail(c)
    ELSE MembersAfter(s, acc, k, ParseValue(s, SkipWs(s, c + 1)))

\* after the members acc and the parse step k of the next key
MembersKey(s, acc, k) ==
    IF ~k.ok THEN ParseFail(k.next)
    ELSE MembersColon(s, acc, k.v.s, SkipWs(s, k.next))

\* the members of an object from the first character p of a key on
MembersFrom(s, acc, p) ==
    IF At(s, p) # Quote THEN ParseFail(p) ELSE MembersKey(s, acc, ParseString(s, p))

\* the members of an object from i on (after "{" or ","), acc those read
ParseMembers(s, i, acc) == MembersFrom(s, acc, SkipWs(s, i))

\* an array whose first character after "[" is at p
ArrayFrom(s, p) ==
    IF At(s, p) = "]" THEN ParseOk(JSArr(<<>>), p + 1) ELSE ParseElements(s, p, <<>>)

\* an object whose first character after "{" is at p
ObjectFrom(s, p) ==
    IF At(s, p) = "}" THEN ParseOk(JSObj(<<>>), p + 1) ELSE ParseMembers(s, p, <<>>)

\* the JSON value at i, whose first character is c
ValueAt(s, i, c) ==
    CASE c = Quote -> ParseString(s, i)
      [] c = "n" -> ParseWord(s, i, Str_null, JSNull)
      [] c = "t" -> ParseWord(s, i, Str_true, JSTrue)
      [] c = "f" -> ParseWord(s, i, Str_false, JSFalse)
      [] c = "-" \/ c \in Digits -> ParseNumber(s, i)
      [] c = "[" -> ArrayFrom(s, SkipWs(s, i + 1))
      [] c = "{" -> ObjectFrom(s, SkipWs(s, i + 1))
      [] OTHER -> ParseFail(i)

\* one JSON value at i
ParseValue(s, i) == ValueAt(s, i, At(s, i))

\* the result of JSON.parse(text) given the parse step r of its value
ParseEnd(text, r) ==
    IF r.ok /\ SkipWs(text, r.next) > Len(text)
    THEN [ok |-> TRUE, v |-> r.v]
    ELSE [ok |-> FALSE, v |-> Undefined]

\* JSON.parse(text): [ok |-> TRUE, v |-> the value], or ok = FALSE where
\* JSON.parse throws a SyntaxError
JSONParse(text) == ParseEnd(text, ParseValue(text, SkipWs(text, 1)))

(***************************************************************************)
(* String literals of the source                                           *)
(***************************************************************************)
Str_error == <<"e","r","r","o","r">>

Str_origin == <<"o","r","i","g","i","n">>

Str_detail == <<"d","e","t","a","i","l">>

Str_raw == <<"r","a","w">>

Str_openai_response_preview == <<"o","p","e","n","a","i","_","r","e","s","p","o","n","s","e","_","p","r","e","v","i","e","w">>

Str_response_text == <<"r","e","s","p","o","n","s","e","_","t","e","x","t">>

Str_learning_objective == <<"l","e","a","r","n","i","n","g","_","o","b","j","e","c","t","i","v","e">>

Str_criteria == <<"c","r","i","t","e","r","i","a">>

Str_output_text == <<"o","u","t","p","u","t","_","t","e","x","t">>

Str_output == <<"o","u","t","p","u","t">>

Str_content == <<"c","o","n","t","e","n","t">>

Str_text == <<"t","e","x","t">>

Str_choices == <<"c","h","o","i","c","e","s">>

Str_message == <<"m","e","s","s","a","g","e">>

Str_0 == <<"0">>

Msg_MethodNotAllowed == <<"M","e","t","h","o","d"," ","n","o","t"," ","a","l","l","o","w","e","d">>

Msg_OriginNotAllowed == <<"O","r","i","g","i","n"," ","n","o","t"," ","a","l","l","o","w","e","d">>

Msg_InvalidJSON == <<"I","n","v","a","l","i","d"," ","J","S","O","N">>

Msg_LengthOutOfRange == <<"R","e","s","p","o","n","s","e"," ","l","e","n","g","t","h"," ","o","u","t"," ","o","f"," ","r","a","n","g","e">>

Msg_MissingObjective == <<"M","i","s","s","i","n","g"," ","l","e","a","r","n","i","n","g","_","o","b","j","e","c","t","i","v","e">>

Msg_MissingKey == <<"M","i","s","s","i","n","g"," ","O","P","E","N","A","I","_","A","P","I","_","K","E","Y">>

Msg_OpenAIError == <<"O","p","e","n","A","I"," ","e","r","r","o","r">>

Msg_NonJSON == <<"M","o","d","e","l"," ","r","e","t","u","r","n","e","d"," ","n","o","n","-","J","S","O","N">>

LocalhostPrefix == <<"h","t","t","p",":","/","/","l","o","c","a","l","h","o","s","t",":">>

ProductionOrigin == <<"h","t","t","p","s",":","/","/","j","i","a","n","g","5","3","y",".","g","i","t","h","u","b",".","i","o">>

AllowedMethods == <<"P","O","S","T",","," ","O","P","T","I","O","N","S">>

AllowedHeaders == <<"C","o","n","t","e","n","t","-","T","y","p","e">>

ApplicationJSON == <<"a","p","p","l","i","c","a","t","i","o","n","/","j","s","o","n">>

TextPlain == <<"t","e","x","t","/","p","l","a","i","n",";","c","h","a","r","s","e","t","=","U","T","F","-","8">>

BearerPrefix == <<"B","e","a","r","e","r"," ">>

ResponsesURL == <<"h","t","t","p","s",":","/","/","a","p","i",".","o","p","e","n","a","i",".","c","o","m","/","v","1","/","r","e","s","p","o","n","s","e","s">>

ChatCompletionsURL == <<"h","t","t","p","s",":","/","/","a","p","i",".","o","p","e","n","a","i",".","c","o","m","/","v","1","/","c","h","a","t","/","c","o","m","p","l","e","t","i","o","n","s">>

WorkerModel == <<"g","p","t","-","4",".","1","-","m","i","n","i">>

IndexModel == <<"g","p","t","-","4","o","-","m","i","n","i">>

(***************************************************************************)
(* Texts used as inputs and as error messages of the runtime               *)
(***************************************************************************)
SecretKey == <<"s","k","-","p","r","o","j","-","7","Q","x","2">>

VerdictText == <<"{","\"","v","e","r","d","i","c","t","\"",":","\"","C","o","r","r","e","c","t","\"",",","\"","s","u","m","m","a","r","y","\"",":","\"","o","k","\"","}">>

VerdictText2 == <<"{","\"","v","e","r","d","i","c","t","\"",":","\"","I","n","c","o","r","r","e","c","t","\"","}">>

ProseText == <<"S","u","r","e",","," ","h","e","r","e","'","s"," ","m","y"," ","a","n","s","w","e","r",":"," ","C","o","r","r","e","c","t">>

ObjectiveText == <<"E","x","p","l","a","i","n"," ","t","a","s","k"," ","d","e","p","e","n","d","e","n","c","i","e","s">>

Criterion1 == <<"N","a","m","e","s"," ","a"," ","d","e","p","e","n","d","e","n","c","y">>

Criterion2 == <<"M","e","n","t","i","o","n","s"," ","a"," ","r","i","s","k">>

IncorrectKeyText == <<"I","n","c","o","r","r","e","c","t"," ","A","P","I"," ","k","e","y"," ","p","r","o","v","i","d","e","d",":"," ">>

HtmlText == <<"<","h","t","m","l",">","B","a","d"," ","G","a","t","e","w","a","y","<","/","h","t","m","l",">">>

BadBodyText == <<"{","b","a","d">>

TenDigits == <<"1","2","3","4","5","6","7","8","9","0">>

Origin_NoPort == <<"h","t","t","p",":","/","/","l","o","c","a","l","h","o","s","t">>

Origin_EmptyPort == <<"h","t","t","p",":","/","/","l","o","c","a","l","h","o","s","t",":">>

Origin_PortLetter == <<"h","t","t","p",":","/","/","l","o","c","a","l","h","o","s","t",":","8","0","a">>

Origin_PortPath == <<"h","t","t","p",":","/","/","l","o","c","a","l","h","o","s","t",":","8","0","/">>

Origin_PrefixedLocalhost == <<"x","h","t","t","p",":","/","/","l","o","c","a","l","h","o","s","t",":","8","0">>

Origin_HttpsLocalhost == <<"h","t","t","p","s",":","/","/","l","o","c","a","l","h","o","s","t",":","8","0">>

Origin_LoopbackV4 == <<"h","t","t","p",":","/","/","1","2","7",".","0",".","0",".","1",":","8","0">>

Origin_LoopbackV6 == <<"h","t","t","p",":","/","/","[",":",":","1","]",":","8","0">>

Origin_LocalhostSubdomain == <<"h","t","t","p",":","/","/","l","o","c","a","l","h","o","s","t",".","e","v","i","l",".","c","o","m",":","8","0">>

Origin_ProdSlash == <<"h","t","t","p","s",":","/","/","j","i","a","n","g","5","3","y",".","g","i","t","h","u","b",".","i","o","/">>

Origin_ProdSuffix == <<"h","t","t","p","s",":","/","/","j","i","a","n","g","5","3","y",".","g","i","t","h","u","b",".","i","o",".","e","v","i","l",".","c","o","m">>

Origin_ProdPort == <<"h","t","t","p","s",":","/","/","j","i","a","n","g","5","3","y",".","g","i","t","h","u","b",".","i","o",":","4","4","3">>

Origin_ProdEmbedded == <<"e","v","i","l",".","c","o","m","/","h","t","t","p","s",":","/","/","j","i","a","n","g","5","3","y",".","g","i","t","h","u","b",".","i","o">>

Origin_ProdShort == <<"h","t","t","p","s",":","/","/","j","i","a","n","g","5","3","y",".","g","i","t","h","u","b",".","i">>

Origin_ProdHttp == <<"h","t","t","p",":","/","/","j","i","a","n","g","5","3","y",".","g","i","t","h","u","b",".","i","o">>

Origin_ProdUpper == <<"h","t","t","p","s",":","/","/","J","I","A","N","G","5","3","Y",".","g","i","t","h","u","b",".","i","o">>

Origin_Null == <<"n","u","l","l">>

Msg_SyntaxError == <<"U","n","e","x","p","e","c","t","e","d"," ","t","o","k","e","n"," ","i","n"," ","J","S","O","N">>

Msg_TypeErrorNull == <<"C","a","n","n","o","t"," ","r","e","a","d"," ","p","r","o","p","e","r","t","i","e","s"," ","o","f"," ","n","u","l","l">>

Msg_JoinNotFunction == <<"(","b","o","d","y",".","c","r","i","t","e","r","i","a"," ","|","|"," ","[","]",")",".","j","o","i","n"," ","i","s"," ","n","o","t"," ","a"," ","f","u","n","c","t","i","o","n">>

Msg_NetworkError == <<"N","e","t","w","o","r","k"," ","c","o","n","n","e","c","t","i","o","n"," ","l","o","s","t",".">>

(***************************************************************************)
(* Program constants                                                       *)
(***************************************************************************)
MinResponseLength == 10

MaxResponseLength == 2000

DetailLimit == 300

RawLimit == 400

PreviewLimit == 800

(***************************************************************************)
(* Bounds of the model                                                     *)
(***************************************************************************)
\* ports of the localhost origins have 1..MaxPortDigits digits
MaxPortDigits == 2

\* a response_text is padded with 0..MaxPad whitespace characters per side
MaxPad == 1

(***************************************************************************)
(* The origin gate                                                         *)
(***************************************************************************)
\* /^http:\/\/localhost:\d+$/.test(origin)
MatchesLocalhost(origin) ==
    /\ Len(origin) > Len(LocalhostPrefix)
    /\ SubSeq(origin, 1, Len(LocalhostPrefix)) = LocalhostPrefix
    /\ \A i \in (Len(LocalhostPrefix) + 1)..Len(origin) : origin[i] \in Digits

\* isAllowedOrigin with origin.startsWith(...) in place of ===
isAllowedOrigin_prefix(origin) ==
    IF origin = <<>> THEN JSNull
    ELSE IF MatchesLocalhost(origin) THEN JSStr(origin)
    ELSE IF SubSeq(origin, 1, Min2(Len(ProductionOrigin), Len(origin))) = ProductionOrigin
    THEN JSStr(origin)
    ELSE JSNull

\* the origin itself when it is on the allow-list, null otherwise
isAllowedOrigin(origin) ==
    IF origin = <<>> THEN JSNull
    ELSE IF MatchesLocalhost(origin) THEN JSStr(origin)
    ELSE IF origin = ProductionOrigin THEN JSStr(origin)
    ELSE JSNull

\* corsHeaders with "*" in place of the origin
corsHeaders_wildcard(origin) ==
    IF ~Truthy(origin) THEN {}
    ELSE { <<"Access-Control-Allow-Origin", <<"*">>>>,
           <<"Access-Control-Allow-Methods", AllowedMethods>>,
           <<"Access-Control-Allow-Headers", AllowedHeaders>> }

\* the CORS headers for the result of isAllowedOrigin: a set of <<name, value>>
corsHeaders(origin) ==
    IF ~Truthy(origin) THEN {}
    ELSE { <<"Access-Control-Allow-Origin", JSString(origin)>>,
           <<"Access-Control-Allow-Methods", AllowedMethods>>,
           <<"Access-Control-Allow-Headers", AllowedHeaders>> }

(***************************************************************************)
(* Responses                                                               *)
(***************************************************************************)
NoResponse == [status |-> 0, headers |-> {}, body |-> <<>>, hasBody |-> FALSE]

\* new Response(body, {status, headers})
NewResponse(body, status, headers) ==
    [status |-> status, headers |-> headers, body |-> body, hasBody |-> TRUE]

\* new Response(null, {status, headers})
EmptyResponse(status, headers) ==
    [status |-> status, headers |-> headers, body |-> <<>>, hasBody |-> FALSE]

\* new Response("Method not allowed", {status: 405}): the runtime gives a
\* string body the text/plain content type
MethodNotAllowed == NewResponse(Msg_MethodNotAllowed, 405, {<<"Content-Type", TextPlain>>})

\* new Response(JSON.stringify(obj), {status, headers: {"Content-Type":
\* "application/json", ...corsHeaders(allowedOrigin)}})
JSONResponse(obj, status, cors) ==
    NewResponse(JSONStringify(obj), status, {<<"Content-Type", ApplicationJSON>>} \cup cors)

\* { error: msg }
ErrorObject(msg) == JSObj(<<Member(Str_error, JSStr(msg))>>)

\* x || ""
OrEmpty(x) == IF Truthy(x) THEN x ELSE JSStr(<<>>)

\* x || []
OrEmptyArray(x) == IF Truthy(x) THEN x ELSE JSArr(<<>>)

(***************************************************************************)
(* Response extraction                                                     *)
(***************************************************************************)
\* Array.isArray(v) ? v : []
ArrayOrEmpty(v) == IF IsArray(v) THEN Elements(v) ELSE <<>>

\* c.text.trim() when c && typeof c.text === "string", "" otherwise
PartText(c) ==
    IF Truthy(c) /\ IsString(Get(c, Str_text)) THEN Trim(Get(c, Str_text).s) ELSE <<>>

RECURSIVE ScanParts(_, _)
\* the inner loop of extractTextFromResponsesOutput from part j on: the
\* trimmed text of the first part that has one, "" when none has
ScanParts(content, j) ==
    IF j > Len(content) THEN <<>>
    ELSE IF PartText(content[j]) # <<>> THEN PartText(content[j])
    ELSE ScanParts(content, j + 1)

\* the inner loop over Array.isArray(item.content) ? item.content : []
ItemText(item) == ScanParts(ArrayOrEmpty(Get(item, Str_content)), 1)

RECURSIVE ScanItems(_, _)
\* the outer loop from item i on: reading item.content of a null item throws
\* a TypeError, and the catch returns ""
ScanItems(out, i) ==
    IF i > Len(out) THEN <<>>
    ELSE IF Nullish(out[i]) THEN <<>>
    ELSE IF ItemText(out[i]) # <<>> THEN ItemText(out[i])
    ELSE ScanItems(out, i + 1)

\* extractTextFromResponsesOutput(d)
extractTextFromResponsesOutput(d) ==
    IF Nullish(d) THEN <<>> ELSE ScanItems(ArrayOrEmpty(Get(d, Str_output)), 1)

\* typeof data.output_text === "string" && data.output_text.trim(), with ""
\* for a falsy result
TopLevelText(d) ==
    IF IsString(Get(d, Str_output_text)) THEN Trim(Get(d, Str_output_text).s) ELSE <<>>

\* the two extraction strategies tried in the other order
ExtractJsonText_nestedFirst(d) ==
    IF extractTextFromResponsesOutput(d) # <<>>
    THEN extractTextFromResponsesOutput(d)
    ELSE TopLevelText(d)

\* (typeof data.output_text === "string" && data.output_text.trim())
\*   || extractTextFromResponsesOutput(data) || ""      for data not nullish
ExtractJsonText(d) ==
    IF TopLevelText(d) # <<>> THEN TopLevelText(d) ELSE extractTextFromResponsesOutput(d)

\* data.choices?.[0]  (v is data.choices)
FirstOf(v) ==
    CASE Nullish(v) -> Undefined
      [] v.t = "array" -> IF Len(v.kids) > 0 THEN v.kids[1].v ELSE Undefined
      [] v.t = "string" -> IF Len(v.s) > 0 THEN JSStr(<<v.s[1]>>) ELSE Undefined
      [] OTHER -> Get(v, Str_0)

\* v?.key
OptGet(v, key) == IF Nullish(v) THEN Undefined ELSE Get(v, key)

\* data.choices?.[0]?.message?.content || ""      for data not nullish
ChatContent(d) ==
    OrEmpty(OptGet(OptGet(FirstOf(Get(d, Str_choices)), Str_message), Str_content))

(***************************************************************************)
(* Inputs                                                                  *)
(***************************************************************************)
Methods == {"OPTIONS", "POST", "GET"}

PortDigits == {"0", "8"}

Ports == UNION { [1..n -> PortDigits] : n \in 1..MaxPortDigits }

LocalhostOrigins == { LocalhostPrefix \o p : p \in Ports }

OtherOrigins ==
    { <<>>, Origin_NoPort, Origin_EmptyPort, Origin_PortLetter, Origin_PortPath,
      Origin_PrefixedLocalhost, Origin_HttpsLocalhost, Origin_LoopbackV4,
      Origin_LoopbackV6, Origin_LocalhostSubdomain, Origin_ProdSlash,
      Origin_ProdSuffix, Origin_ProdPort, Origin_ProdEmbedded, Origin_ProdShort,
      Origin_ProdHttp, Origin_ProdUpper, Origin_Null }

Origins == LocalhostOrigins \cup {ProductionOrigin} \cup OtherOrigins

CoreOrigins == { ProductionOrigin, LocalhostPrefix \o <<"8">>, Origin_ProdSuffix, <<>> }

\* env.OPENAI_API_KEY: unset, empty, set
Keys == { Undefined, JSStr(<<>>), JSStr(SecretKey) }

Padded(s, pad) == Rep(" ", pad) \o s \o Rep("\n", pad)

ResponseTexts ==
    { JSStr(Padded(Rep("a", n), pad)) :
        n \in { MinResponseLength - 1, MinResponseLength,
                MaxResponseLength, MaxResponseLength + 1 },
        pad \in 0..MaxPad }
    \cup { Undefined, JSNum(TenDigits), JSStr(Rep(" ", MinResponseLength + 2)), JSObj(<<>>) }

Objectives == { Undefined, JSStr(<<>>), JSStr(<<" ", "\t", " ">>), JSStr(ObjectiveText) }

CriteriaValues == { Undefined, JSArr(<<JSStr(Criterion1), JSStr(Criterion2)>>), JSStr(Criterion1) }

\* { response_text, learning_objective, criteria } (an undefined member is
\* left out by JSON.stringify)
RequestObject(rt, lo, cr) ==
    JSObj(<<Member(Str_response_text, rt), Member(Str_learning_objective, lo),
            Member(Str_criteria, cr)>>)

ValidBody ==
    JSONStringify(RequestObject(JSStr(Rep("a", MinResponseLength)), JSStr(ObjectiveText),
                                JSArr(<<JSStr(Criterion1), JSStr(Criterion2)>>)))

OtherBodies ==
    { <<>>, BadBodyText, Str_null, <<"5">>, <<"[", "]">>, Str_true, QuoteJSON(ObjectiveText) }

Bodies ==
    { JSONStringify(RequestObject(rt, lo, Undefined)) : rt \in ResponseTexts, lo \in Objectives }
    \cup { JSONStringify(RequestObject(JSStr(Rep("a", MinResponseLength)), JSStr(ObjectiveText), cr)) :
             cr \in CriteriaValues }
    \cup OtherBodies

CoreBodies == { ValidBody, Str_null, BadBodyText }

Request(m, o, b) == [method |-> m, origin |-> o, body |-> b]

Scenario(h, r, k) == [handler |-> h, request |-> r, key |-> k]

\* the requests put to the handler of part_000: every method and origin with
\* a valid body; every method, credential and core body with the core
\* origins; every body and credential from the production origin; every
\* body from a localhost origin
WorkerScenarios ==
    { Scenario("worker", Request(m, o, ValidBody), JSStr(SecretKey)) :
        m \in Methods, o \in Origins }
    \cup { Scenario("worker", Request(m, o, b), k) :
        m \in Methods, o \in CoreOrigins, b \in CoreBodies, k \in Keys }
    \cup { Scenario("worker", Request("POST", ProductionOrigin, b), k) :
        b \in Bodies, k \in Keys }
    \cup { Scenario("worker", Request("POST", LocalhostPrefix \o <<"8">>, b), JSStr(SecretKey)) :
        b \in Bodies }

IndexBodies ==
    CoreBodies \cup OtherBodies
    \cup { JSONStringify(RequestObject(JSStr(Rep("a", MinResponseLength)), JSStr(ObjectiveText), cr)) :
             cr \in CriteriaValues }

\* the requests put to the handler of index.js, which reads neither the
\* Origin header nor the length of a field
IndexScenarios ==
    { Scenario("index", Request(m, o, b), k) :
        m \in Methods, o \in {ProductionOrigin, <<>>}, b \in IndexBodies, k \in Keys }

Scenarios == WorkerScenarios \cup IndexScenarios

(***************************************************************************)
(* The upstream provider: what the one outbound call can come back with    *)
(***************************************************************************)
Idle == [state |-> "idle", failed |-> FALSE, status |-> 0, text |-> <<>>]

Pending == [state |-> "pending", failed |-> FALSE, status |-> 0, text |-> <<>>]

\* the fetch promise rejected (a network failure)
Rejected == [state |-> "resolved", failed |-> TRUE, status |-> 0, text |-> <<>>]

\* the fetch promise resolved with a response of this status and body text
Resolved(status, text) == [state |-> "resolved", failed |-> FALSE, status |-> status, text |-> text]

\* Response.ok
Ok(status) == status >= 200 /\ status <= 299

Part(text) == JSObj(<<Member(Str_text, text)>>)

Item(parts) == JSObj(<<Member(Str_content, JSArr(parts))>>)

TopLevel(text) == JSObj(<<Member(Str_output_text, text)>>)

Nested(items) == JSObj(<<Member(Str_output, JSArr(items))>>)

Both(text, items) == JSObj(<<Member(Str_output_text, text), Member(Str_output, JSArr(items))>>)

ChatCompletion(text) ==
    JSObj(<<Member(Str_choices, JSArr(<<JSObj(<<Member(Str_message,
        JSObj(<<Member(Str_content, text)>>))>>)>>))>>)

GoodPart == Part(JSStr(VerdictText))

OtherPart == Part(JSStr(VerdictText2))

\* envelopes of the Responses API, well-formed and not
Envelopes(key) ==
    { TopLevel(JSStr(VerdictText)),
      Nested(<<Item(<<GoodPart>>)>>),
      TopLevel(JSStr(Padded(VerdictText, 1))),
      Nested(<<Item(<<Part(JSStr(Padded(VerdictText, 1)))>>)>>),
      Both(JSStr(<<" ", " ">>), <<Item(<<GoodPart>>)>>),
      Both(JSNum(<<"5">>), <<Item(<<GoodPart>>)>>),
      Both(JSStr(VerdictText2), <<Item(<<GoodPart>>)>>),
      Nested(<<Item(<<GoodPart>>), Item(<<OtherPart>>)>>),
      Nested(<<Item(<<OtherPart, GoodPart>>)>>),
      Nested(<<Item(<<>>), Item(<<Part(JSStr(<<" ">>)), Part(JSNum(<<"7">>)), GoodPart>>)>>),
      Nested(<<JSNull, Item(<<GoodPart>>)>>),
      Nested(<<Item(<<JSNull, GoodPart>>)>>),
      Nested(<<JSNum(<<"5">>), JSObj(<<Member(Str_content, JSStr(VerdictText))>>), Item(<<GoodPart>>)>>),
      Nested(<<Item(<<JSNum(<<"5">>), JSStr(VerdictText), GoodPart>>)>>),
      Nested(<<Item(<<Part(JSStr(ProseText))>>), JSNull>>),
      JSObj(<<Member(Str_output, JSStr(VerdictText))>>),
      JSObj(<<>>),
      TopLevel(JSStr(ProseText)),
      TopLevel(JSStr(Rep("x", RawLimit + 1))),
      TopLevel(JSStr(Rep("x", PreviewLimit + 1))),
      TopLevel(JSStr(<<"n", "u", "l", "l">>)),
      TopLevel(JSStr(QuoteJSON(key))),
      TopLevel(JSStr(ProseText \o key)),
      ChatCompletion(JSStr(VerdictText)),
      ChatCompletion(JSStr(Rep("x", RawLimit + 1))),
      ChatCompletion(JSObj(<<>>)) }

SuccessTexts(key) ==
    { JSONStringify(e) : e \in Envelopes(key) }
    \cup { HtmlText, <<>>, Str_null, <<"5">>, <<"[", "]">>, QuoteJSON(VerdictText) }

ErrorTexts(key) ==
    { <<>>, HtmlText, IncorrectKeyText \o key, Rep("e", DetailLimit), Rep("e", DetailLimit + 1),
      JSONStringify(ErrorObject(IncorrectKeyText \o key)),
      JSONStringify(ChatCompletion(JSStr(VerdictText))) }

\* what the provider may answer to a call that carried this Authorization
\* header (it can echo the key it was sent)
UpstreamOutcomes(authorization) ==
    LET key == SubSeq(authorization, Len(BearerPrefix) + 1, Len(authorization))
    IN  {Rejected}
        \cup { Resolved(200, t) : t \in SuccessTexts(key) }
        \cup { Resolved(s, t) : s \in {401, 500}, t \in ErrorTexts(key) }

(***************************************************************************)
(* State                                                                   *)
(***************************************************************************)
VARIABLES
    handler,            \* which entry point serves the request
    request,            \* [method, origin, body]: the Origin header ("" when absent) and the body text
    env,                \* [OPENAI_API_KEY]
    pc,                 \* where the handler is
    allowedOrigin,      \* const allowedOrigin
    body,               \* let body
    responseText,       \* const responseText
    learningObjective,  \* const learningObjective
    criteria,           \* const criteria
    outbound,           \* the upstream calls issued so far
    upstream,           \* the state of the upstream call
    data,               \* const data
    jsonText,           \* const jsonText (worker), String(raw) (index)
    raw,                \* const raw (index)
    response,           \* the Response the handler returned
    thrown              \* the exception that left the handler uncaught

vars == <<handler, request, env, pc, allowedOrigin, body, responseText, learningObjective,
          criteria, outbound, upstream, data, jsonText, raw, response, thrown>>

input == <<handler, request, env>>

validated == <<responseText, learningObjective, criteria>>

extracted == <<data, jsonText, raw>>

Init ==
    /\ \E sc \in Scenarios :
          /\ handler = sc.handler
          /\ request = sc.request
          /\ env = [OPENAI_API_KEY |-> sc.key]
    /\ pc = "gate"
    /\ allowedOrigin = Undefined
    /\ body = Undefined
    /\ responseText = <<>>
    /\ learningObjective = <<>>
    /\ criteria = <<>>
    /\ outbound = <<>>
    /\ upstream = Idle
    /\ data = Undefined
    /\ jsonText = <<>>
    /\ raw = Undefined
    /\ response = NoResponse
    /\ thrown = "none"

\* return r
Return(r) == response' = r /\ pc' = "done" /\ thrown' = thrown

\* an exception leaves the handler: no Response is returned
Throw(e) == thrown' = e /\ pc' = "thrown" /\ response' = response

\* go on to the next stage
Goto(next) == pc' = next /\ response' = response /\ thrown' = thrown

(***************************************************************************)
(* The handler of part_000 / worker.js                                     *)
(***************************************************************************)
\* { error: "Origin not allowed", origin }
OriginNotAllowedReply(origin) ==
    JSObj(<<Member(Str_error, JSStr(Msg_OriginNotAllowed)), Member(Str_origin, JSStr(origin))>>)

\* lines 7-25, with allowed the result of isAllowedOrigin(origin)
GateWith(origin, allowed) ==
    /\ allowedOrigin' = allowed
    /\ IF request.method = "OPTIONS"
       THEN Return(EmptyResponse(204, corsHeaders(allowed)))
       ELSE IF request.method # "POST"
       THEN Return(MethodNotAllowed)
       ELSE IF ~Truthy(allowed)
       THEN Return(JSONResponse(OriginNotAllowedReply(origin), 403, {}))
       ELSE Goto("parse")

\* lines 3-25: the preflight, the method gate and the origin gate
Gate ==
    /\ handler = "worker" /\ pc = "gate"
    /\ GateWith(request.origin, isAllowedOrigin(request.origin))
    /\ UNCHANGED <<input, body, validated, outbound, upstream, extracted>>

\* lines 29-36, with p the outcome of request.json()
ParsedBody(p) ==
    IF ~p.ok
    THEN /\ Return(JSONResponse(ErrorObject(Msg_InvalidJSON), 400, corsHeaders(allowedOrigin)))
         /\ body' = body
    ELSE /\ Goto("validate")
         /\ body' = p.v

\* lines 27-36: body = await request.json()
ParseBody ==
    /\ handler = "worker" /\ pc = "parse"
    /\ ParsedBody(JSONParse(request.body))
    /\ UNCHANGED <<input, allowedOrigin, validated, outbound, upstream, extracted>>

\* lines 42-61: the length check, the objective check, the credential check
Checks(rt, lo) ==
    IF Len(rt) < MinResponseLength \/ Len(rt) > MaxResponseLength
    THEN Return(JSONResponse(ErrorObject(Msg_LengthOutOfRange), 400, corsHeaders(allowedOrigin)))
    ELSE IF lo = <<>>
    THEN Return(JSONResponse(ErrorObject(Msg_MissingObjective), 400, corsHeaders(allowedOrigin)))
    ELSE IF ~Truthy(env.OPENAI_API_KEY)
    THEN Return(JSONResponse(ErrorObject(Msg_MissingKey), 500, corsHeaders(allowedOrigin)))
    ELSE Goto("call")

\* String(v || "").trim()
TrimmedField(v) == Trim(JSString(OrEmpty(v)))

\* lines 38-61, with the three fields read off the body
Validated(rt, lo, cr) ==
    /\ responseText' = rt
    /\ learningObjective' = lo
    /\ criteria' = cr
    /\ Checks(rt, lo)

\* lines 38-61: the fields and the checks.  body.response_text throws a
\* TypeError when body is null.
Validate ==
    /\ handler = "worker" /\ pc = "validate"
    /\ IF Nullish(body)
       THEN Throw("TypeError") /\ UNCHANGED validated
       ELSE Validated(TrimmedField(Get(body, Str_response_text)),
                      TrimmedField(Get(body, Str_learning_objective)),
                      ArrayOrEmpty(Get(body, Str_criteria)))
    /\ UNCHANGED <<input, allowedOrigin, body, outbound, upstream, extracted>>

\* an outbound request: the endpoint, the Authorization header, and of the
\* JSON body the model and what the prompt interpolates
UpstreamRequest(url, key, model, objective, crit, text) ==
    [url |-> url, authorization |-> BearerPrefix \o JSString(key), model |-> model,
     learningObjective |-> objective, criteria |-> crit, responseText |-> text]

\* `${c}` for each criterion
CriteriaTexts(crit) == [i \in 1..Len(crit) |-> JSString(crit[i])]

\* lines 63-102: the prompts and fetch("https://api.openai.com/v1/responses")
IssueCall ==
    /\ handler = "worker" /\ pc = "call"
    /\ outbound' = Append(outbound,
           UpstreamRequest(ResponsesURL, env.OPENAI_API_KEY, WorkerModel, learningObjective,
                           CriteriaTexts(criteria), responseText))
    /\ upstream' = Pending
    /\ Goto("await")
    /\ UNCHANGED <<input, allowedOrigin, body, validated, extracted>>

\* the provider answers the pending call, or the connection fails
UpstreamResolve ==
    /\ pc = "await" /\ upstream.state = "pending"
    /\ \E o \in UpstreamOutcomes(outbound[Len(outbound)].authorization) : upstream' = o
    /\ Goto("resume")
    /\ UNCHANGED <<input, allowedOrigin, body, validated, outbound, extracted>>

\* lines 124-128: the reply when jsonText is not JSON
NonJSONReply(text, d) ==
    JSObj(<<Member(Str_error, JSStr(Msg_NonJSON)),
            Member(Str_raw, JSStr(Slice(text, RawLimit))),
            Member(Str_openai_response_preview, JSStr(Slice(JSONStringify(d), PreviewLimit)))>>)

\* line 106: the reply to a non-success upstream status
UpstreamErrorReply(err) ==
    JSObj(<<Member(Str_error, JSStr(Msg_OpenAIError)),
            Member(Str_detail, JSStr(Slice(err, DetailLimit)))>>)

\* lines 119-139, with parsed the outcome of JSON.parse(jsonText)
Relay(d, text, parsed) ==
    /\ data' = d
    /\ jsonText' = text
    /\ raw' = raw
    /\ IF ~parsed.ok
       THEN Return(JSONResponse(NonJSONReply(text, d), 500, corsHeaders(allowedOrigin)))
       ELSE Return(JSONResponse(parsed.v, 200, corsHeaders(allowedOrigin)))

\* lines 112-139, with p the outcome of openaiResp.json(): a SyntaxError on
\* a body that is not JSON, and a TypeError from data.output_text when data
\* is null
Received(p) ==
    IF ~p.ok
    THEN Throw("SyntaxError") /\ UNCHANGED extracted
    ELSE IF Nullish(p.v)
    THEN Throw("TypeError") /\ data' = p.v /\ UNCHANGED <<jsonText, raw>>
    ELSE Relay(p.v, ExtractJsonText(p.v), JSONParse(ExtractJsonText(p.v)))

\* HandleUpstream with the call issued again after a non-success status
HandleUpstream_retry ==
    /\ handler = "worker" /\ pc = "resume"
    /\ IF upstream.failed
       THEN Throw("NetworkError") /\ UNCHANGED extracted
       ELSE IF ~Ok(upstream.status)
       THEN Goto("call") /\ UNCHANGED extracted
       ELSE Received(JSONParse(upstream.text))
    /\ UNCHANGED <<input, allowedOrigin, body, validated, outbound, upstream>>

\* lines 88 and 104-139: the awaited fetch settles; a rejected fetch throws
HandleUpstream ==
    /\ handler = "worker" /\ pc = "resume"
    /\ IF upstream.failed
       THEN Throw("NetworkError") /\ UNCHANGED extracted
       ELSE IF ~Ok(upstream.status)
       THEN /\ Return(JSONResponse(UpstreamErrorReply(upstream.text), 502,
                                   corsHeaders(allowedOrigin)))
            /\ UNCHANGED extracted
       ELSE Received(JSONParse(upstream.text))
    /\ UNCHANGED <<input, allowedOrigin, body, validated, outbound, upstream>>

(***************************************************************************)
(* The handler of src/index.js                                             *)
(***************************************************************************)
\* Response.json(obj, {status})
ResponseJSON(obj, status) ==
    NewResponse(JSONStringify(obj), status, {<<"Content-Type", ApplicationJSON>>})

\* lines 53-55: catch (e) { return Response.json({ error: e.message }, { status: 500 }) }
Caught(message) == Return(ResponseJSON(ErrorObject(message), 500))

\* lines 3-5: the method gate
IndexGate ==
    /\ handler = "index" /\ pc = "gate"
    /\ IF request.method # "POST" THEN Return(MethodNotAllowed) ELSE Goto("parse")
    /\ UNCHANGED <<input, allowedOrigin, body, validated, outbound, upstream, extracted>>

\* lines 10-23, with b the parsed body: `${body.response_text}`,
\* `${body.learning_objective}` and (body.criteria || []).join(" | "), which
\* throws a TypeError on a value without join
IndexPrompt(b) ==
    /\ body' = b
    /\ IF Nullish(b)
       THEN Caught(Msg_TypeErrorNull) /\ UNCHANGED validated
       ELSE IF ~IsArray(OrEmptyArray(Get(b, Str_criteria)))
       THEN Caught(Msg_JoinNotFunction) /\ UNCHANGED validated
       ELSE /\ responseText' = JSString(Get(b, Str_response_text))
            /\ learningObjective' = JSString(Get(b, Str_learning_objective))
            /\ criteria' = Elements(OrEmptyArray(Get(b, Str_criteria)))
            /\ Goto("call")

\* lines 8-23, with p the outcome of request.json()
IndexParsed(p) ==
    IF ~p.ok THEN Caught(Msg_SyntaxError) /\ UNCHANGED <<body, validated>> ELSE IndexPrompt(p.v)

\* lines 8-23: body = await request.json() and the prompt; every exception
\* is caught at line 53
IndexParse ==
    /\ handler = "index" /\ pc = "parse"
    /\ IndexParsed(JSONParse(request.body))
    /\ UNCHANGED <<input, allowedOrigin, outbound, upstream, extracted>>

\* lines 25-39: fetch("https://api.openai.com/v1/chat/completions")
IndexCall ==
    /\ handler = "index" /\ pc = "call"
    /\ outbound' = Append(outbound,
           UpstreamRequest(ChatCompletionsURL, env.OPENAI_API_KEY, IndexModel, learningObjective,
                           CriteriaTexts(criteria), responseText))
    /\ upstream' = Pending
    /\ Goto("await")
    /\ UNCHANGED <<input, allowedOrigin, body, validated, extracted>>

\* { error: "Model returned non-JSON", raw }
IndexNonJSONReply(content) ==
    JSObj(<<Member(Str_error, JSStr(Msg_NonJSON)), Member(Str_raw, content)>>)

\* lines 44-51, with parsed the outcome of JSON.parse(raw)
IndexRelay(d, content, parsed) ==
    /\ data' = d
    /\ raw' = content
    /\ jsonText' = JSString(content)
    /\ IF ~parsed.ok
       THEN Return(ResponseJSON(IndexNonJSONReply(content), 500))
       ELSE Return(ResponseJSON(parsed.v, 200))

\* lines 41-51, with p the outcome of resp.json()
IndexReceived(p) ==
    IF ~p.ok
    THEN Caught(Msg_SyntaxError) /\ UNCHANGED extracted
    ELSE IF Nullish(p.v)
    THEN Caught(Msg_TypeErrorNull) /\ data' = p.v /\ UNCHANGED <<jsonText, raw>>
    ELSE IndexRelay(p.v, ChatContent(p.v), JSONParse(JSString(ChatContent(p.v))))

\* lines 41-55: the awaited fetch settles; resp.ok is never read
IndexHandle ==
    /\ handler = "index" /\ pc = "resume"
    /\ IF upstream.failed
       THEN Caught(Msg_NetworkError) /\ UNCHANGED extracted
       ELSE IndexReceived(JSONParse(upstream.text))
    /\ UNCHANGED <<input, allowedOrigin, body, validated, outbound, upstream>>

Next ==
    \/ Gate
    \/ ParseBody
    \/ Validate
    \/ IssueCall
    \/ UpstreamResolve
    \/ HandleUpstream
    \/ IndexGate
    \/ IndexParse
    \/ IndexCall
    \/ IndexHandle

Spec == Init /\ [][Next]_vars

(***************************************************************************)
(* Properties                                                              *)
(***************************************************************************)
\* p is a prefix of s
IsPrefix(p, s) == Len(p) <= Len(s) /\ SubSeq(s, 1, Len(p)) = p

\* needle occurs in hay
Contains(hay, needle) ==
    \/ Len(needle) = 0
    \/ \E i \in 1..(Len(hay) - Len(needle) + 1) :
          /\ hay[i] = needle[1]
          /\ SubSeq(hay, i, i + Len(needle) - 1) = needle

AccessControlHeaders ==
    { "Access-Control-Allow-Origin", "Access-Control-Allow-Methods",
      "Access-Control-Allow-Headers" }

\* r has no Access-Control-* header
NoAccessControl(r) == \A h \in r.headers : h[1] \notin AccessControlHeaders

\* r has the three CORS headers, Access-Control-Allow-Origin being origin and
\* nothing else
EchoesOrigin(r, origin) ==
    /\ \E h \in r.headers : h[1] = "Access-Control-Allow-Origin"
    /\ \A h \in r.headers : h[1] = "Access-Control-Allow-Origin" => h[2] = origin
    /\ <<"Access-Control-Allow-Methods", <<"P","O","S","T",","," ","O","P","T","I","O","N","S">>>> \in r.headers
    /\ <<"Access-Control-Allow-Headers", <<"C","o","n","t","e","n","t","-","T","y","p","e">>>> \in r.headers

\* o is authority followed by one or more decimal digits
WithPort(authority, o) ==
    \E n \in 1..Len(o) :
        /\ SubSeq(o, 1, Len(o) - n) = authority
        /\ \A i \in (Len(o) - n + 1)..Len(o) : o[i] \in Digits

\* http://localhost:<port>
LocalhostWithPort(o) == WithPort(<<"h","t","t","p",":","/","/","l","o","c","a","l","h","o","s","t",":">>, o)

\* the loopback host names and addresses: localhost, 127.0.0.1, [::1]
LoopbackAuthorities ==
    { <<"h","t","t","p",":","/","/","l","o","c","a","l","h","o","s","t",":">>,
      <<"h","t","t","p",":","/","/","1","2","7",".","0",".","0",".","1",":">>,
      <<"h","t","t","p",":","/","/","[",":",":","1","]",":">> }

\* an http origin at a loopback address, with a port
LoopbackWithPort(o) == \E a \in LoopbackAuthorities : WithPort(a, o)

\* p is the parse of a body that is exactly { error: msg }
ParsesToError(p, msg) ==
    /\ p.ok
    /\ p.v.t = "object"
    /\ Len(p.v.kids) = 1
    /\ Get(p.v, Str_error) = JSStr(msg)

\* r has this status and the body { error: msg }
IsError(r, status, msg) == r.status = status /\ ParsesToError(JSONParse(r.body), msg)

\* p is the parse of a body that is exactly { error: "Origin not allowed", origin }
ParsesToRejection(p, origin) ==
    /\ p.ok
    /\ p.v.t = "object"
    /\ Len(p.v.kids) = 2
    /\ Get(p.v, Str_error) = JSStr(Msg_OriginNotAllowed)
    /\ Get(p.v, Str_origin) = JSStr(origin)

\* the upstream call came back with an HTTP response
Answered == upstream.state = "resolved" /\ ~upstream.failed

Finished == pc \in {"done", "thrown"}

\* C1: a POST to the handler of part_000 whose Origin is neither
\* http://localhost:<digits> nor exactly the production origin (the empty
\* Origin and the strings that contain, prefix or extend an allowed origin
\* included) never gets past the origin gate: no upstream call is issued, no
\* exception is thrown, and the response is 403 with the JSON body
\* { error, origin } and no Access-Control-* header.
C1_DisallowedOriginRejected ==
    (/\ handler = "worker"
     /\ request.method = "POST"
     /\ ~LocalhostWithPort(request.origin)
     /\ request.origin # ProductionOrigin)
    => /\ outbound = <<>>
       /\ pc \in {"gate", "done"}
       /\ pc = "done" =>
            /\ response.status = 403
            /\ NoAccessControl(response)
            /\ ParsesToRejection(JSONParse(response.body), request.origin)

C1_Witness ==
    /\ handler = "worker"
    /\ pc = "done"
    /\ request.method = "POST"
    /\ request.origin = Origin_ProdSuffix
    /\ response.status = 403
    /\ outbound = <<>>

\* what C2 promises a POST with this Origin: isAllowedOrigin returns the
\* origin itself, the request passes the gate, and every response carries
\* the three CORS headers with the exact origin
AdmittedAndEchoed(origin) ==
    /\ isAllowedOrigin(origin) = JSStr(origin)
    /\ pc # "gate" => allowedOrigin = JSStr(origin) /\ ~(pc = "done" /\ response.status = 403)
    /\ pc = "done" => EchoesOrigin(response, origin)

C3_EveryPathAnswersWithCors ==
    (/\ handler = "worker"
     /\ request.method = "POST"
     /\ pc # "gate"
     /\ Truthy(allowedOrigin))
    => /\ thrown = "none"
       /\ pc # "thrown"
       /\ pc = "done" => EchoesOrigin(response, request.origin)

\* C4: no response, of either handler, contains the value of OPENAI_API_KEY
\* in its body or in a header, whatever the upstream sent.
C4_CredentialNeverInResponse ==
    (/\ pc = "done"
     /\ IsString(env.OPENAI_API_KEY)
     /\ env.OPENAI_API_KEY.s # <<>>)
    => /\ ~Contains(response.body, env.OPENAI_API_KEY.s)
       /\ \A h \in response.headers : ~Contains(h[2], env.OPENAI_API_KEY.s)

\* the length of response_text after trimming; an absent field, and a body
\* that can have no field, has length 0
ResponseTextLength(b) ==
    IF Nullish(b) THEN 0 ELSE Len(Trim(JSString(OrEmpty(Get(b, Str_response_text)))))

\* what C5 promises a request whose trimmed response_text has length n
LengthChecked(n) ==
    IF n >= 10 /\ n <= 2000
    THEN ~(pc = "done" /\ IsError(response, 400, Msg_LengthOutOfRange))
    ELSE /\ outbound = <<>>
         /\ pc \in {"validate", "done"}
         /\ pc = "done" => IsError(response, 400, Msg_LengthOutOfRange)

\* C5: for a POST with an allowed origin and a JSON body, trimmed
\* response_text lengths 10 through 2000 pass the length check, and every
\* other length (9, 2001, an absent field) yields 400 with
\* { error: "Response length out of range" } and no upstream call.
C5_LengthBounds ==
    (/\ handler = "worker"
     /\ request.method = "POST"
     /\ Truthy(allowedOrigin)
     /\ body # Undefined)
    => LengthChecked(ResponseTextLength(body))

\* the trimmed top-level output_text when it is a string, "" otherwise
TopText(d) ==
    IF d.t = "object" /\ Get(d, Str_output_text).t = "string"
    THEN Trim(Get(d, Str_output_text).s)
    ELSE <<>>

\* the output items of an envelope
ItemsOf(d) ==
    IF d.t = "object" /\ Get(d, Str_output).t = "array" THEN Elements(Get(d, Str_output)) ELSE <<>>

\* the content parts of an item
PartsOf(item) ==
    IF item.t = "object" /\ Get(item, Str_content).t = "array"
    THEN Elements(Get(item, Str_content))
    ELSE <<>>

\* a part whose text is a string that is non-blank after trimming
Offers(c) ==
    /\ c.t = "object"
    /\ Get(c, Str_text).t = "string"
    /\ Trim(Get(c, Str_text).s) # <<>>

\* the positions <<item, part>> of the parts that offer a text
Offering(items) ==
    { p \in UNION { { <<i, j>> : j \in 1..Len(PartsOf(items[i])) } : i \in 1..Len(items) } :
        Offers(PartsOf(items[p[1]])[p[2]]) }

\* p comes no later than q in scanning order
NoLater(p, q) == p[1] < q[1] \/ (p[1] = q[1] /\ p[2] <= q[2])

FirstOffering(items) ==
    CHOOSE p \in Offering(items) : \A q \in Offering(items) : NoLater(p, q)

\* the trimmed text of the first part, in scanning order, that offers one
FirstText(items) ==
    IF Offering(items) = {} THEN <<>>
    ELSE Trim(Get(PartsOf(items[FirstOffering(items)[1]])[FirstOffering(items)[2]], Str_text).s)

\* the items that come before the first null item
BeforeNull(items) ==
    IF \E i \in 1..Len(items) : items[i].t = "null"
    THEN SubSeq(items, 1, (CHOOSE i \in 1..Len(items) :
                             /\ items[i].t = "null"
                             /\ \A k \in 1..(i - 1) : items[k].t # "null") - 1)
    ELSE items

\* an item or a part that is not an object
Malformed(v) == v.t # "object"

\* the scan meets a malformed item or part no later than the first part that
\* offers a text
MeetsMalformed(items) ==
    \/ \E i \in 1..Len(items) :
          /\ Malformed(items[i])
          /\ \A q \in Offering(items) : i <= q[1]
    \/ \E i \in 1..Len(items) : \E j \in 1..Len(PartsOf(items[i])) :
          /\ Malformed(PartsOf(items[i])[j])
          /\ \A q \in Offering(items) : NoLater(<<i, j>>, q)

\* the extracted text as the code has it: a null item ends the scan, every
\* other item or part without a text is passed over
ScannedText(d) ==
    IF TopText(d) # <<>> THEN TopText(d) ELSE FirstText(BeforeNull(ItemsOf(d)))

\* the extracted text as the claim states it: any malformed item or part met
\* while scanning gives "no text found"
ScannedTextStrict(d) ==
    IF TopText(d) # <<>> THEN TopText(d)
    ELSE IF MeetsMalformed(ItemsOf(d)) THEN <<>>
    ELSE FirstText(ItemsOf(d))

\* the response relays the parse p of the extracted text: 200 with the parsed
\* value when it is JSON, 500 otherwise
Relays(p) ==
    IF p.ok
    THEN response.status = 200 /\ JSONParse(response.body) = p
    ELSE response.status = 500

\* the handler of part_000 has finished on a success envelope: a 2xx answer
\* whose body is a JSON object
OnEnvelope(p) ==
    /\ handler = "worker"
    /\ Finished
    /\ Answered
    /\ Ok(upstream.status)
    /\ p.ok
    /\ p.v.t = "object"

\* the extraction gave this text without an exception, and the response
\* relays it
ExtractedAndRelayed(text) ==
    /\ pc = "done"
    /\ jsonText = text
    /\ Relays(JSONParse(text))

\* the envelope with the text at top level and the one with it nested as the
\* first part of the first item get the same response
SameInEitherShape ==
    (/\ handler = "worker"
     /\ pc = "done"
     /\ upstream \in { Resolved(200, JSONStringify(TopLevel(JSStr(VerdictText)))),
                       Resolved(200, JSONStringify(Nested(<<Item(<<GoodPart>>)>>))) })
    => /\ response.status = 200
       /\ response.body = JSONStringify(JSONParse(VerdictText).v)

C6_Amended(p) == OnEnvelope(p) => ExtractedAndRelayed(ScannedText(p.v))

C6_Original(p) == OnEnvelope(p) => ExtractedAndRelayed(ScannedTextStrict(p.v))

\* C6 (as the code has it): on an upstream success envelope the extracted
\* text is the trimmed top-level output_text when that is a non-blank string;
\* otherwise the trimmed text of the first part, scanning the output items in
\* order and each item's content parts in order, whose text is a non-blank
\* string, where a null item ends the scan with no text found and every
\* other item or part without such a text (a non-object, a missing or
\* non-array content, a missing, non-string or blank text) is passed over;
\* otherwise "".  No exception is thrown; a text that is JSON gives 200 with
\* the parsed value, the same in either shape, and any other text gives 500.
C6_ExtractionOrder == C6_Amended(JSONParse(upstream.text)) /\ SameInEitherShape

C6_Witness ==
    /\ handler = "worker"
    /\ pc = "done"
    /\ data = Nested(<<Item(<<JSNull, GoodPart>>)>>)
    /\ jsonText = VerdictText
    /\ response.status = 200

\* C6 (as the claim states it): the same, except that a malformed item or
\* part met while scanning produces "no text found".
C6_MalformedMeansNoText == C6_Original(JSONParse(upstream.text)) /\ SameInEitherShape

\* p is the parse of a body { error: "Model returned non-JSON", raw,
\* openai_response_preview } with raw a prefix of text of at most 400
\* characters and the preview a prefix of envelope of at most 800
ParsesToDiagnostic(p, text, envelope) ==
    /\ p.ok
    /\ Get(p.v, Str_error) = JSStr(Msg_NonJSON)
    /\ Get(p.v, Str_raw).t = "string"
    /\ Len(Get(p.v, Str_raw).s) <= 400
    /\ IsPrefix(Get(p.v, Str_raw).s, text)
    /\ Get(p.v, Str_openai_response_preview).t = "string"
    /\ Len(Get(p.v, Str_openai_response_preview).s) <= 800
    /\ IsPrefix(Get(p.v, Str_openai_response_preview).s, envelope)

\* C7: when the upstream answers with a success status and a JSON envelope,
\* and the text extracted from it is not JSON, the handler (either one) does
\* not crash and returns 500 with { error: "Model returned non-JSON" }, a raw
\* of at most 400 characters that is a prefix of the extracted text, and an
\* openai_response_preview of at most 800 characters that is a prefix of the
\* serialized envelope.
C7_NonJSONDiagnostic ==
    (/\ Finished
     /\ Answered
     /\ Ok(upstream.status)
     /\ data # Undefined
     /\ ~JSONParse(jsonText).ok)
    => /\ pc = "done"
       /\ response.status = 500
       /\ ParsesToDiagnostic(JSONParse(response.body), jsonText, JSONStringify(data))

\* p is the parse of a body { error: "OpenAI error", detail } with detail the
\* prefix of text of at most 300 characters
ParsesToUpstreamError(p, text) ==
    /\ p.ok
    /\ Get(p.v, Str_error) = JSStr(Msg_OpenAIError)
    /\ Get(p.v, Str_detail).t = "string"
    /\ Get(p.v, Str_detail).s = SubSeq(text, 1, IF Len(text) < 300 THEN Len(text) ELSE 300)

\* C8: when the upstream answers with a non-success status, the handler
\* (either one) returns 502 with { error: "OpenAI error", detail }, detail
\* being the first 300 characters of the upstream body, and extracts and
\* parses nothing from that body.
C8_UpstreamFailureIs502 ==
    (/\ Finished
     /\ Answered
     /\ ~Ok(upstream.status))
    => /\ pc = "done"
       /\ response.status = 502
       /\ ParsesToUpstreamError(JSONParse(response.body), upstream.text)
       /\ data = Undefined
       /\ jsonText = <<>>

\* C9: an OPTIONS request, to either handler, issues no upstream call and
\* gets 204 with an empty body; the headers are the three CORS headers
\* echoing the origin when the origin is allowed, and hold no
\* Access-Control-* header otherwise.
C9_PreflightAlways204 ==
    request.method = "OPTIONS"
    => /\ outbound = <<>>
       /\ pc \in {"gate", "done"}
       /\ pc = "done" =>
            /\ response.status = 204
            /\ ~response.hasBody
            /\ response.body = <<>>
            /\ IF LocalhostWithPort(request.origin) \/ request.origin = ProductionOrigin
               THEN EchoesOrigin(response, request.origin)
               ELSE NoAccessControl(response)

\* learning_objective is non-blank after trimming
HasObjective(b) == Trim(JSString(OrEmpty(Get(b, Str_learning_objective)))) # <<>>

\* the request passes the method gate, the origin gate, input validation and
\* the credential check; p is the parse of its body
PassesWith(p) ==
    /\ request.method = "POST"
    /\ (LocalhostWithPort(request.origin) \/ request.origin = ProductionOrigin)
    /\ p.ok
    /\ ~Nullish(p.v)
    /\ ResponseTextLength(p.v) >= 10
    /\ ResponseTextLength(p.v) <= 2000
    /\ HasObjective(p.v)
    /\ IsString(env.OPENAI_API_KEY)
    /\ env.OPENAI_API_KEY.s # <<>>

PassesAllChecks == PassesWith(JSONParse(request.body))

\* C10: in the handler of part_000 at most one upstream call is ever issued;
\* one is issued only for a request that passes the method gate, the origin
\* gate, input validation and the credential check, and such a request has
\* issued exactly one when the handler finishes (with no second call after an
\* upstream error); the handler never finishes while the call is pending.
C10_OneCallBeforeResponse ==
    handler = "worker"
    => /\ Len(outbound) <= 1
       /\ outbound # <<>> => PassesAllChecks
       /\ (Finished /\ PassesAllChecks) => Len(outbound) = 1 /\ upstream.state = "resolved"
       /\ (Finished /\ ~PassesAllChecks) => outbound = <<>> /\ upstream.state = "idle"
       /\ Finished => upstream.state # "pending"
       /\ response # NoResponse => pc = "done"

C10_Witness ==
    /\ handler = "worker"
    /\ pc = "done"
    /\ Len(outbound) = 1
    /\ Answered
    /\ upstream.status = 500
    /\ response.status = 502

\* the response is the 405 of the method gate: plain text, no CORS header
IsMethodNotAllowed(r) ==
    /\ r.status = 405
    /\ r.body = Msg_MethodNotAllowed
    /\ <<"Content-Type", ApplicationJSON>> \notin r.headers
    /\ NoAccessControl(r)

\* the handler answered, and the answer is that of the first check that
\* fails, the checks taken in the order OPTIONS, method, origin, body,
\* response_text length, learning_objective, credential; p is the parse of
\* the request body.  A request that fails none has issued its upstream call.
FirstFailureDecides(p) ==
    IF request.method = "OPTIONS"
    THEN pc = "done" /\ response.status = 204
    ELSE IF request.method # "POST"
    THEN pc = "done" /\ IsMethodNotAllowed(response)
    ELSE IF ~(LocalhostWithPort(request.origin) \/ request.origin = ProductionOrigin)
    THEN pc = "done" /\ response.status = 403
    ELSE IF ~p.ok
    THEN pc = "done" /\ IsError(response, 400, Msg_InvalidJSON)
    ELSE IF ResponseTextLength(p.v) < 10 \/ ResponseTextLength(p.v) > 2000
    THEN pc = "done" /\ IsError(response, 400, Msg_LengthOutOfRange)
    ELSE IF ~HasObjective(p.v)
    THEN pc = "done" /\ IsError(response, 400, Msg_MissingObjective)
    ELSE IF ~(IsString(env.OPENAI_API_KEY) /\ env.OPENAI_API_KEY.s # <<>>)
    THEN pc = "done" /\ IsError(response, 500, Msg_MissingKey)
    ELSE Len(outbound) = 1

\* C11: in the handler of part_000 the checks have a fixed precedence and
\* the response is that of the first one that fails: OPTIONS (204), then a
\* method other than POST (405, plain text, no CORS header even for an
\* allowed origin), then a disallowed origin (403), then an unparseable body
\* (400 Invalid JSON), then the response_text length (400 Response length
\* out of range), then a learning_objective that is empty after trimming
\* (400 Missing learning_objective), then a missing credential (500 Missing
\* OPENAI_API_KEY).
C11_FixedPrecedence ==
    (handler = "worker" /\ Finished) => FirstFailureDecides(JSONParse(request.body))

=============================================================================
